---- MODULE Spec2Model ----
(***************************************************************************)
(* Model of the flipbook document library: the tiered image preloader and  *)
(* the page-flip sound player (components/hooks/useImagePreloader.ts), the *)
(* flipbook viewer (components/FlipbookViewer.tsx) and the upload of a PDF *)
(* (components/Uploader.tsx, convex/documents.ts, convex/schema.ts) and    *)
(* the categories of the backend (convex/categories.ts).                   *)
(*                                                                         *)
(* The specifications share the variables:                                 *)
(*   Spec        the preload scheduler: preload calls, image load events,  *)
(*               delay timers and idle callbacks, viewer mount/unmount;    *)
(*   SpecTiers   preloadForViewer's tier computation over all documents of *)
(*               up to MaxPages pages;                                     *)
(*   SpecViewer  the viewer's layout state under resizes, ratio discovery, *)
(*               document changes and the view-mode toolbar buttons;       *)
(*   SpecSession a viewer session: document changes, page flips, page      *)
(*               renders, ratio discovery, zoom and view-mode buttons;     *)
(*   SpecZoom    the zoom scale under double taps, zoom buttons and        *)
(*               document changes;                                         *)
(*   SpecSound   playFlipSound's clip selection, one draw at a time;       *)
(*   SpecUpload  handleUpload against the storage and the documents table; *)
(*   SpecBackend the category and document mutations of the backend and    *)
(*               the listing of the active documents;                      *)
(*   SpecDrain   the scheduler with timers and drain callbacks that are    *)
(*               eventually run.                                           *)
(* Each specification keeps the variables it does not use at their initial *)
(* values.                                                                 *)
(***************************************************************************)
EXTENDS Integers, Sequences, FiniteSets, Bags, TLC

VARIABLES
    \* ---- useImagePreloader.ts, module-level state
    loadedImages,       \* Set<string>: URLs whose image has loaded
    pendingTasks,       \* PreloadTask[]: the shared low/idle queue
    isIdleLoading,      \* a drain chain is active
    \* ---- browser bookkeeping for the scheduler
    fetches,            \* bag of Images loading for critical batches and queued tasks
    highLoops,          \* bag of suspended 'high' loops, each awaiting its Image
    delayTimers,        \* pending setTimeout(processIdleTasks, 100), oldest first,
                        \* each named by the ordinal of the call that set it
    drainCallbacks,     \* pending requestIdleCallback / setTimeout(fallbackProcess, 50)
    hasRequestIdleCallback, \* 'requestIdleCallback' in window
    unhandledRejection,     \* a promise returned by preload rejected with no handler
    mounted,            \* the component owning the hook instance is mounted
    nCalls,             \* number of preload entry-point calls so far
    \* ---- preloadForViewer's inputs and the tiers it dispatched last
    pageImageUrls,
    currentPage,
    initialPages,
    tiers,
    \* ---- FlipbookViewer.tsx layout state
    containerW, containerH, windowW,
    pdfRatio,           \* [num, den]: height / width of a page
    viewMode,
    baseDim,
    layout,             \* locals of the last calculateLayout run
    lastOp,
    \* ---- FlipbookViewer.tsx session state
    file,               \* the document the file / pageImageUrls props refer to
    numPages,
    pageNumber,
    scale,              \* the zoom scale in tenths: 10 is 1.0
    loadedPages,        \* Set<number>: 0-based indices of the pages rendered
    ratioLoads,         \* documents whose first-image load or getPage(1) is outstanding
    \* ---- double-tap detection
    lastTapRef,
    isTouchRef,
    now,                \* Date.now()
    taps,               \* the tap / click events handled so far
    clickPending,       \* the browser has yet to dispatch the click of the last tap
    \* ---- usePageFlipSound
    lastSoundIndexRef,
    randomIndex,        \* the index drawn by the selection loop of a running call
    selecting,          \* a playFlipSound call is inside its do-while loop
    \* ---- Uploader.tsx handleUpload and the backend
    uploading,          \* the uploading state of the Uploader (38)
    uploadStep,
    uploadNumPages,     \* pdfDoc.numPages of the file being uploaded
    storageId,          \* the storage id of the uploaded PDF
    pageImageIds,
    storage,            \* the file storage: storage id i holds storage[i]
    documentsTable,     \* the records of the documents table
    saveCalls,          \* saveDocument calls of the running upload
    categoriesTable,    \* the records of the categories table
    created             \* the number of ids issued so far for each table

schedVars == <<loadedImages, pendingTasks, isIdleLoading, fetches, highLoops,
               delayTimers, drainCallbacks, hasRequestIdleCallback,
               unhandledRejection, mounted, nCalls>>
tierVars == <<pageImageUrls, currentPage, initialPages, tiers>>
viewerVars == <<containerW, containerH, windowW, pdfRatio, viewMode, baseDim,
                layout, lastOp>>
sessionVars == <<file, numPages, pageNumber, scale, loadedPages, ratioLoads>>
tapVars == <<lastTapRef, isTouchRef, now, taps, clickPending>>
soundVars == <<lastSoundIndexRef, randomIndex, selecting>>
uploadVars == <<uploading, uploadStep, uploadNumPages, storageId, pageImageIds, storage,
                documentsTable, saveCalls, categoriesTable, created>>
restVars == <<sessionVars, tapVars, soundVars, uploadVars>>
vars == <<schedVars, tierVars, viewerVars, restVars>>

----------------------------------------------------------------------------
\* Bounds of the model

\* URLs are 1..NumUrls; the scheduler's documents have NumUrls pages
NumUrls == 2
\* preload entry-point calls per behaviour
MaxCalls == 2
\* longest document of SpecTiers (9 pages fill all four tiers in double mode)
MaxPages == 9

Null == 0
Urls == 1..NumUrls

Min(a, b) == IF a < b THEN a ELSE b
Max(a, b) == IF a > b THEN a ELSE b

RECURSIVE SeqToSet(_)
SeqToSet(s) == IF s = <<>> THEN {} ELSE {Head(s)} \cup SeqToSet(Tail(s))

\* the number of copies a bag B holds of the elements of S
RECURSIVE SumOver(_, _)
SumOver(B, S) ==
    IF S = {} THEN 0
    ELSE LET x == CHOOSE y \in S : TRUE IN B[x] + SumOver(B, S \ {x})

\* Array.prototype.slice(start, end) on 0-based indices, 0 <= start, end <= length
Slice(s, start, end) ==
    IF start >= end \/ start >= Len(s) THEN <<>> ELSE SubSeq(s, start + 1, end)

\* urls.filter(url => url): drops the null placeholders
FilterTruthy(s) == SelectSeq(s, LAMBDA u : u # Null)

----------------------------------------------------------------------------
\* preloadForViewer: the four tiers (useImagePreloader.ts 146-183)

ViewerTiers(pages, page, init) ==
    LET validUrls == FilterTruthy(pages)
        currentIndex == page - 1
        criticalStart == Max(0, currentIndex)
        criticalEnd == Min(Len(validUrls), criticalStart + init)
        highStart == criticalEnd
        highEnd == Min(Len(validUrls), highStart + 2)
        lowStart == highEnd
        lowEnd == Min(Len(validUrls), lowStart + 4)
    IN  [critical |-> Slice(validUrls, criticalStart, criticalEnd),
         high     |-> Slice(validUrls, highStart, highEnd),
         low      |-> Slice(validUrls, lowStart, lowEnd),
         idle     |-> Slice(validUrls, lowEnd, Len(validUrls))]

NoTiers == [critical |-> <<>>, high |-> <<>>, low |-> <<>>, idle |-> <<>>]

----------------------------------------------------------------------------
\* The scheduler state as a record, so that one handler can chain several calls

SchedState ==
    [loaded |-> loadedImages, pending |-> pendingTasks, idleLoading |-> isIdleLoading,
     fetches |-> fetches, loops |-> highLoops, timers |-> delayTimers,
     drains |-> drainCallbacks, unhandled |-> unhandledRejection,
     call |-> nCalls + 1]

SetSched(st) ==
    /\ loadedImages' = st.loaded
    /\ pendingTasks' = st.pending
    /\ isIdleLoading' = st.idleLoading
    /\ fetches' = st.fetches
    /\ highLoops' = st.loops
    /\ delayTimers' = st.timers
    /\ drainCallbacks' = st.drains
    /\ unhandledRejection' = st.unhandled

One(e) == SetToBag({e})

\* preloadImage without the cache test of line 21
preloadImageNoCache(st, url, origin) ==
    [st EXCEPT !.fetches = @ (+) One([url |-> url, origin |-> origin])]

\* preloadImage (19-34) called outside the high loop: resolves at once for a
\* loaded URL, else creates an Image that starts loading
preloadImage(st, url, origin) ==
    IF url \in st.loaded
    THEN st
    ELSE [st EXCEPT !.fetches = @ (+) One([url |-> url, origin |-> origin])]

\* validUrls.map(url => preloadImage(url)) (103)
RECURSIVE preloadImages(_, _, _)
preloadImages(st, urls, origin) ==
    IF urls = <<>> THEN st
    ELSE preloadImages(preloadImage(st, Head(urls), origin), Tail(urls), origin)

\* processIdleTasks (37-82): start a drain chain unless one is active
processIdleTasks(st) ==
    IF st.idleLoading THEN st
    ELSE [st EXCEPT !.idleLoading = TRUE, !.drains = @ + 1]

\* the 'high' loop (108-111) from the iteration over Head(rest) up to its next
\* suspension: it breaks on the abort flag, passes loaded URLs (preloadImage
\* resolves at once) and suspends on the Image of the first URL not yet loaded
RECURSIVE runHighLoop(_, _, _)
runHighLoop(st, rest, aborted) ==
    IF rest = <<>> \/ aborted THEN st
    ELSE IF Head(rest) \in st.loaded
         THEN runHighLoop(st, Tail(rest), aborted)
         ELSE [st EXCEPT !.loops = @ (+)
                   One([url |-> Head(rest), rest |-> Tail(rest),
                        aborted |-> aborted])]

\* the tasks pushed at 117 / 125; timer names the delay timer set along with a
\* 'low' task (119) and is Null for an 'idle' task
Tasks(urls, priority, timer) ==
    [i \in 1..Len(urls) |->
        [url |-> urls[i], priority |-> priority, status |-> "pending",
         timer |-> timer]]

\* preload (94-130), up to its first await
preload(st, urls, priority) ==
    LET validUrls == SelectSeq(urls, LAMBDA u : u # Null /\ u \notin st.loaded)
    IN  IF validUrls = <<>> THEN st
        ELSE CASE priority = "critical" ->
                    preloadImages(st, validUrls, "critical")
               [] priority = "high" ->
                    runHighLoop(st, validUrls, FALSE)
               [] priority = "low" ->
                    [st EXCEPT !.pending = @ \o Tasks(validUrls, "low", st.call),
                               !.timers = Append(@, st.call)]
               [] priority = "idle" ->
                    processIdleTasks(
                        [st EXCEPT !.pending = @ \o Tasks(validUrls, "idle", Null)])

\* preloadFirstPages (133-142)
preloadFirstPages(st, documents) ==
    LET firstPageUrls ==
            FilterTruthy([i \in 1..Len(documents) |->
                IF Len(documents[i]) > 0 THEN documents[i][1] ELSE Null])
    IN  IF Len(firstPageUrls) > 0
        THEN preload(st, firstPageUrls, "critical")
        ELSE st

\* preloadForViewer (146-183): the tiers, each dispatched with its priority
preloadForViewer(st, pages, page, init) ==
    IF FilterTruthy(pages) = <<>> THEN st
    ELSE
    LET t == ViewerTiers(pages, page, init)
        s1 == preload(st, t.critical, "critical")
        s2 == IF Len(t.high) > 0 THEN preload(s1, t.high, "high") ELSE s1
        s3 == IF Len(t.low) > 0 THEN preload(s2, t.low, "low") ELSE s2
    IN  IF Len(t.idle) > 0 THEN preload(s3, t.idle, "idle") ELSE s3

----------------------------------------------------------------------------
\* Inputs of the scheduler's entry points

\* documents handed to the viewer: page i is stored under URL i or not yet stored
ViewerDocs ==
    {[i \in 1..NumUrls |-> IF i \in S THEN i ELSE Null] : S \in SUBSET Urls}

\* argument lists of a direct preload call: one or two distinct URLs
UrlLists == {<<u>> : u \in Urls} \cup {p \in Urls \X Urls : p[1] # p[2]}

\* the priorities of a direct preload call; a critical batch is dispatched
\* through preloadFirstPages or preloadForViewer, the callers of this repository
Priorities == {"high", "low", "idle"}

\* the documents of a sidebar listing: only pageImageUrls?.[0] is read
SidebarLists == {<<<<u>>>> : u \in Urls \cup {Null}} \cup
                {<<<<p[1]>>, <<p[2]>>>> : p \in {q \in Urls \X Urls : q[1] # q[2]}}

----------------------------------------------------------------------------
\* Scheduler actions

\* a caller invokes preload(urls, {priority})
PreloadCall(urls, priority) ==
    /\ mounted
    /\ nCalls < MaxCalls
    /\ nCalls' = nCalls + 1
    /\ SetSched(preload(SchedState, urls, priority))
    /\ UNCHANGED <<hasRequestIdleCallback, mounted, tierVars, viewerVars, restVars>>

\* a caller invokes preloadFirstPages(documents)
PreloadFirstPagesCall(documents) ==
    /\ mounted
    /\ nCalls < MaxCalls
    /\ nCalls' = nCalls + 1
    /\ SetSched(preloadFirstPages(SchedState, documents))
    /\ UNCHANGED <<hasRequestIdleCallback, mounted, tierVars, viewerVars, restVars>>

\* the viewer invokes preloadForViewer(pageImageUrls, currentPage, initialPages)
\* (FlipbookViewer.tsx 614-627: on open with page 1, then on every flip)
PreloadForViewerCall(pages, page, init) ==
    /\ mounted
    /\ nCalls < MaxCalls
    /\ nCalls' = nCalls + 1
    /\ SetSched(preloadForViewer(SchedState, pages, page, init))
    /\ UNCHANGED <<hasRequestIdleCallback, mounted, tierVars, viewerVars, restVars>>

\* a rejected preloadImage promise under 'critical': Promise.all (103) rejects
\* and with it the promise preload returned, which preloadForViewer (160) and
\* preloadFirstPages (140) drop; the queue drains catch it (49, 72)
Rejected(st, f) ==
    IF f.origin = "critical" THEN [st EXCEPT !.unhandled = TRUE] ELSE st

\* img.onload (27-30) of an Image created for a critical batch or a queued task
ImageOnLoad(f) ==
    /\ BagIn(f, fetches)
    /\ SetSched([SchedState EXCEPT !.loaded = @ \cup {f.url},
                                   !.fetches = @ (-) One(f)])
    /\ UNCHANGED <<hasRequestIdleCallback, mounted, nCalls, tierVars, viewerVars,
                   restVars>>

\* img.onerror (31) of an Image created for a critical batch or a queued task
ImageOnError(f) ==
    /\ BagIn(f, fetches)
    /\ SetSched(Rejected([SchedState EXCEPT !.fetches = @ (-) One(f)], f))
    /\ UNCHANGED <<hasRequestIdleCallback, mounted, nCalls, tierVars, viewerVars,
                   restVars>>

\* a high loop without the .catch of line 110: the rejection leaves the loop
highLoopStopsOnError(st, l) == st

\* the high loop resumes after a rejection: .catch(() => {}) (110) swallows it
highLoopAfterError(st, l) ==
    runHighLoop(st, l.rest, l.aborted)

\* img.onload of the Image a high loop awaits, and the loop's next iterations
HighImageOnLoad(l) ==
    /\ BagIn(l, highLoops)
    /\ SetSched(runHighLoop([SchedState EXCEPT !.loaded = @ \cup {l.url},
                                               !.loops = @ (-) One(l)],
                            l.rest, l.aborted))
    /\ UNCHANGED <<hasRequestIdleCallback, mounted, nCalls, tierVars, viewerVars,
                   restVars>>

\* img.onerror of the Image a high loop awaits, and the loop's next iterations
HighImageOnError(l) ==
    /\ BagIn(l, highLoops)
    /\ SetSched(highLoopAfterError([SchedState EXCEPT !.loops = @ (-) One(l)], l))
    /\ UNCHANGED <<hasRequestIdleCallback, mounted, nCalls, tierVars, viewerVars,
                   restVars>>

\* the 100 ms timer of a 'low' preload fires (119); timers of equal delay
\* fire in the order they were set
DelayTimerFires ==
    /\ delayTimers # <<>>
    /\ SetSched(processIdleTasks([SchedState EXCEPT !.timers = Tail(@)]))
    /\ UNCHANGED <<hasRequestIdleCallback, mounted, nCalls, tierVars, viewerVars,
                   restVars>>

\* one queued task is shifted and started (44-50, 67-73)
StartTask(st, task) ==
    IF task.status = "pending"
    THEN preloadImage(st, task.url, "queue")
    ELSE st

\* a queue that hands out its newest task: pendingTasks.pop()
popTask(queue) ==
    [task |-> queue[Len(queue)], rest |-> SubSeq(queue, 1, Len(queue) - 1)]

\* pendingTasks.shift() (44, 67): the oldest task leaves the queue
shiftTask(queue) ==
    [task |-> Head(queue), rest |-> Tail(queue)]

RECURSIVE DrainTasks(_, _)
DrainTasks(st, k) ==
    IF k = 0 \/ st.pending = <<>> THEN st
    ELSE LET shifted == shiftTask(st.pending)
         IN  DrainTasks(StartTask([st EXCEPT !.pending = shifted.rest], shifted.task),
                        k - 1)

\* a drain step that releases the flag with tasks left in the queue
StopAfterStep(st) ==
    [st EXCEPT !.idleLoading = FALSE, !.drains = @ - 1]

\* the end of a drain step (54-58, 74-78): re-register or release the flag
ContinueOrStop(st) ==
    IF Len(st.pending) > 0 THEN st
    ELSE [st EXCEPT !.idleLoading = FALSE, !.drains = @ - 1]

\* idleCallback (41-59): the deadline allows k iterations of the while loop
IdleCallback(k) ==
    /\ hasRequestIdleCallback
    /\ drainCallbacks > 0
    /\ k \in 0..Len(pendingTasks)
    /\ SetSched(ContinueOrStop(DrainTasks(SchedState, k)))
    /\ UNCHANGED <<hasRequestIdleCallback, mounted, nCalls, tierVars, viewerVars,
                   restVars>>

\* fallbackProcess (66-79): one task per 50 ms tick
FallbackProcess ==
    /\ ~hasRequestIdleCallback
    /\ drainCallbacks > 0
    /\ SetSched(ContinueOrStop(DrainTasks(SchedState, 1)))
    /\ UNCHANGED <<hasRequestIdleCallback, mounted, nCalls, tierVars, viewerVars,
                   restVars>>

\* a cleanup that leaves abortRef.current as it is
keepLoops(loops) == loops

\* the effect cleanup of the hook (87-91): abortRef.current = true
abortLoops(loops) ==
    LET aborted(l) == [l EXCEPT !.aborted = TRUE]
    IN  [m \in {aborted(l) : l \in BagToSet(loops)} |->
            SumOver(loops, {l \in BagToSet(loops) : aborted(l) = m})]

Unmount ==
    /\ mounted
    /\ mounted' = FALSE
    /\ highLoops' = abortLoops(highLoops)
    /\ UNCHANGED <<loadedImages, pendingTasks, isIdleLoading, fetches, delayTimers,
                   drainCallbacks, hasRequestIdleCallback, unhandledRejection,
                   nCalls, tierVars, viewerVars, restVars>>

\* a viewer is opened again: a new hook instance with its own abortRef (85)
Mount ==
    /\ ~mounted
    /\ mounted' = TRUE
    /\ UNCHANGED <<loadedImages, pendingTasks, isIdleLoading, fetches, highLoops,
                   delayTimers, drainCallbacks, hasRequestIdleCallback,
                   unhandledRejection, nCalls, tierVars, viewerVars, restVars>>

\* DEFAULT_RATIO = 1.414 (FlipbookViewer.tsx 495) as a fraction
DefaultRatio == [num |-> 707, den |-> 500]

\* the viewport width from which the layout is double (680), Tailwind's lg
Breakpoint == 1024
\* the least sheet width (717-718)
MinWidth == 200

Frac(n, d) == [num |-> n, den |-> d]

NoLayout == [mode |-> "double", branch |-> "none", clampW |-> FALSE, clampH |-> FALSE,
             targetWidth |-> Frac(0, 1), targetHeight |-> Frac(0, 1)]

TiersIdle ==
    /\ pageImageUrls = <<>>
    /\ currentPage = 1
    /\ initialPages = 2
    /\ tiers = NoTiers

ViewerIdle ==
    /\ containerW = 0
    /\ containerH = 0
    /\ windowW = 0
    /\ pdfRatio = DefaultRatio
    /\ viewMode = "double"
    /\ baseDim = [width |-> 0, height |-> 0]
    /\ layout = NoLayout
    /\ lastOp = "init"

SchedIdle ==
    /\ loadedImages = {}
    /\ pendingTasks = <<>>
    /\ isIdleLoading = FALSE
    /\ fetches = EmptyBag
    /\ highLoops = EmptyBag
    /\ delayTimers = <<>>
    /\ drainCallbacks = 0
    /\ unhandledRejection = FALSE
    /\ mounted = TRUE
    /\ nCalls = 0

\* PAGE_FLIP_SOUNDS.length (useImagePreloader.ts 219-223)
PoolSize == 3

\* Date.now() when the viewer opens: any value above the double-tap delay
StartTime == 1000

\* the viewer session before a document has loaded (558-562, 577)
SessionIdle ==
    /\ file = 1
    /\ numPages = 0
    /\ pageNumber = 1
    /\ scale = 10
    /\ loadedPages = {}
    /\ ratioLoads = {}

\* lastTapRef and isTouchRef as created (749-750)
TapIdle ==
    /\ lastTapRef = 0
    /\ isTouchRef = FALSE
    /\ now = StartTime
    /\ taps = <<>>
    /\ clickPending = FALSE

\* lastSoundIndexRef as created (236)
SoundIdle ==
    /\ lastSoundIndexRef = -1
    /\ randomIndex = -1
    /\ selecting = FALSE

\* no upload running, empty storage and documents table
UploadIdle ==
    /\ uploading = FALSE
    /\ uploadStep = "idle"
    /\ uploadNumPages = 0
    /\ storageId = 0
    /\ pageImageIds = <<>>
    /\ storage = <<>>
    /\ documentsTable = {}
    /\ saveCalls = 0
    /\ categoriesTable = {}
    /\ created = [categories |-> 0, documents |-> 0]

RestIdle ==
    /\ SessionIdle
    /\ TapIdle
    /\ SoundIdle
    /\ UploadIdle

Init ==
    /\ SchedIdle
    /\ hasRequestIdleCallback \in BOOLEAN
    /\ TiersIdle
    /\ ViewerIdle
    /\ RestIdle

Next ==
    \/ \E urls \in UrlLists, priority \in Priorities : PreloadCall(urls, priority)
    \/ \E documents \in SidebarLists : PreloadFirstPagesCall(documents)
    \/ \E pages \in ViewerDocs, page \in 1..NumUrls, init \in {1, 2} :
            PreloadForViewerCall(pages, page, init)
    \/ \E f \in BagToSet(fetches) : ImageOnLoad(f)
    \/ \E f \in BagToSet(fetches) : ImageOnError(f)
    \/ \E l \in BagToSet(highLoops) : HighImageOnLoad(l)
    \/ \E l \in BagToSet(highLoops) : HighImageOnError(l)
    \/ DelayTimerFires
    \/ \E k \in 0..Len(pendingTasks) : IdleCallback(k)
    \/ FallbackProcess
    \/ Unmount
    \/ Mount

Spec == Init /\ [][Next]_vars

\* a registered drain callback runs with tasks in the queue: the idle callback
\* with time for at least one task, or the 50 ms fallback tick
DrainStep ==
    \/ \E k \in 1..Len(pendingTasks) : IdleCallback(k)
    \/ FallbackProcess

\* SpecDrain: the scheduler where a timer that was set fires and a registered
\* idle callback is granted with time remaining
SpecDrain == Spec /\ WF_vars(DelayTimerFires) /\ WF_vars(DrainStep)

----------------------------------------------------------------------------
\* SpecTiers: one preloadForViewer call on every document of up to MaxPages pages

\* page i of a document is stored under URL i or is a null placeholder
DocsOfLength(n) ==
    {[i \in 1..n |-> IF i \in S THEN i ELSE Null] : S \in SUBSET (1..n)}

TierDocs == UNION {DocsOfLength(n) : n \in 1..MaxPages}

InitTiers ==
    /\ SchedIdle
    /\ hasRequestIdleCallback = TRUE
    /\ pageImageUrls \in TierDocs
    /\ currentPage = 1
    /\ initialPages = 2
    /\ tiers = NoTiers
    /\ ViewerIdle
    /\ RestIdle

\* the lists preloadForViewer hands to preload (152: none for an all-null document)
DispatchedTiers(pages, page, init) ==
    IF FilterTruthy(pages) = <<>> THEN NoTiers ELSE ViewerTiers(pages, page, init)

\* the viewer calls preloadForViewer(pageImageUrls, page, init) on a fresh scheduler
ViewerPreload(page, init) ==
    /\ nCalls = 0
    /\ nCalls' = 1
    /\ currentPage' = page
    /\ initialPages' = init
    /\ tiers' = DispatchedTiers(pageImageUrls, page, init)
    /\ SetSched(preloadForViewer(SchedState, pageImageUrls, page, init))
    /\ UNCHANGED <<pageImageUrls, hasRequestIdleCallback, mounted, viewerVars, restVars>>

NextTiers ==
    \E page \in 1..Len(pageImageUrls), init \in {1, 2} : ViewerPreload(page, init)

SpecTiers == InitTiers /\ [][NextTiers]_vars

----------------------------------------------------------------------------
\* Properties of preloadForViewer's tiers (SpecTiers)

TierSet(name) == SeqToSet(tiers[name])
TierNames == {"critical", "high", "low", "idle"}

\* the non-null URLs of the pages at positions from..to of the document
PageUrls(from, to) ==
    {pageImageUrls[i] : i \in {j \in from..to : j <= Len(pageImageUrls)}} \ {Null}

ViewerCalled == nCalls = 1

\* C1: the four dispatched tiers are pairwise disjoint and their union is the
\* set of non-null URLs of the pages currentPage..length.
TiersPartitionTail ==
    ViewerCalled =>
        /\ \A a \in TierNames, b \in TierNames :
               a # b => TierSet(a) \cap TierSet(b) = {}
        /\ UNION {TierSet(a) : a \in TierNames} =
               PageUrls(currentPage, Len(pageImageUrls))

\* C2: the critical tier holds exactly the non-null URLs of the pages
\* currentPage .. currentPage + initialPages - 1, the spread on screen.
CriticalIsSpread ==
    ViewerCalled =>
        TierSet("critical") = PageUrls(currentPage, currentPage + initialPages - 1)

----------------------------------------------------------------------------
\* Properties of the scheduler (Spec)

\* isLoaded (186)
isLoaded(url) == url \in loadedImages

\* the number of Images loading for url
InFlightIn(fs, ls, url) ==
    SumOver(fs, {f \in BagToSet(fs) : f.url = url}) +
    SumOver(ls, {l \in BagToSet(ls) : l.url = url})

InFlight(url) == InFlightIn(fetches, highLoops, url)

QueuedUrls == {pendingTasks[i].url : i \in 1..Len(pendingTasks)}

\* C3: once a URL has loaded, isLoaded(url) stays true and no step (a preload
\* call of any tier, a queued task being drained, a high loop resuming) starts
\* another fetch of it.
LoadedNeverRefetched ==
    [][\A u \in Urls :
          isLoaded(u) =>
              /\ isLoaded(u)'
              /\ InFlightIn(fetches', highLoops', u) <= InFlight(u)]_vars

\* C3 witness: a URL has loaded while a task for it still waits in the queue
\* and the drain that will shift the task is scheduled.
LoadedWhileQueued ==
    \E u \in Urls :
        /\ isLoaded(u)
        /\ u \in QueuedUrls
        /\ drainCallbacks > 0

\* C4: the queue never holds two tasks with the same URL, and no URL has two
\* fetches in flight at once.
NoDuplicateWork ==
    /\ \A i \in 1..Len(pendingTasks), j \in 1..Len(pendingTasks) :
           pendingTasks[i].url = pendingTasks[j].url => i = j
    /\ \A u \in Urls : InFlight(u) <= 1

\* C5: no promise returned by a preload that preloadForViewer or
\* preloadFirstPages dispatched is rejected without a handler.
NoUnhandledRejection == ~unhandledRejection

\* the amount of work outstanding for url: queued tasks, Images loading, and
\* the URLs a running high loop has still to visit
WorkIn(q, fs, ls, url) ==
    Cardinality({i \in 1..Len(q) : q[i].url = url}) +
    InFlightIn(fs, ls, url) +
    SumOver(ls, {l \in BagToSet(ls) : ~l.aborted /\ url \in SeqToSet(l.rest)})

Work(url) == WorkIn(pendingTasks, fetches, highLoops, url)

OthersKeepTheirWork(failed) ==
    \A u \in Urls \ {failed} :
        ~isLoaded(u) => WorkIn(pendingTasks', fetches', highLoops', u) >= Work(u)

\* C6: when the load of one URL fails, every other URL keeps its outstanding
\* work (its Image keeps loading, its task stays queued, the high loop goes on
\* to it), and a load that succeeds puts its URL in the cache.
FailureNeverAbortsBatch ==
    [][/\ (loadedImages' = loadedImages /\ pendingTasks' = pendingTasks) =>
            /\ \A f \in BagToSet(fetches) :
                   ImageOnError(f) => OthersKeepTheirWork(f.url)
            /\ \A l \in BagToSet(highLoops) :
                   HighImageOnError(l) => OthersKeepTheirWork(l.url)
       /\ \A f \in BagToSet(fetches) : ImageOnLoad(f) => isLoaded(f.url)'
       /\ \A l \in BagToSet(highLoops) : HighImageOnLoad(l) => isLoaded(l.url)']_vars

\* C6 witness: a high loop awaits the Image of one URL and has another URL,
\* not loaded, still to visit.
HighLoopMidBatch ==
    \E l \in BagToSet(highLoops) :
        /\ ~l.aborted
        /\ \E u \in SeqToSet(l.rest) : ~isLoaded(u)

\* C18: at no time are two 'high' fetches in flight: at most one high loop is
\* suspended on an Image, however many preload calls were issued.
OneHighFetchAtATime ==
    BagCardinality(highLoops) <= 1

\* the Images loading for queued tasks of URL u
QueueFetches(u) ==
    LET f == [url |-> u, origin |-> "queue"]
    IN  IF BagIn(f, fetches) THEN fetches[f] ELSE 0

\* the tasks for URL u among the first n of the queue
QueuedAhead(u, n) ==
    Cardinality({i \in 1..n : pendingTasks[i].url = u})

\* C20: queued tasks start in enqueue order and at most once: a step either
\* appends to the queue and starts no queued task, or removes the n oldest
\* tasks and creates exactly one Image for each of them whose URL is not loaded
\* (a task for a loaded URL completes without one).
TasksStartInFifoOrder ==
    [][LET n == Len(pendingTasks) - Len(pendingTasks')
       IN  IF n <= 0
           THEN /\ SubSeq(pendingTasks', 1, Len(pendingTasks)) = pendingTasks
                /\ \A u \in Urls : QueueFetches(u)' <= QueueFetches(u)
           ELSE /\ pendingTasks' = SubSeq(pendingTasks, n + 1, Len(pendingTasks))
                /\ \A u \in Urls :
                       QueueFetches(u)' = QueueFetches(u) +
                           (IF u \in loadedImages THEN 0 ELSE QueuedAhead(u, n))
      ]_vars

\* C20 witness: the oldest task, enqueued as 'low', has started while an 'idle'
\* task for another URL enqueued by a later call is still queued.
OldestStartedFirst ==
    /\ Len(pendingTasks) = 1
    /\ pendingTasks[1].priority = "idle"
    /\ \E u \in Urls \ {pendingTasks[1].url} : QueueFetches(u) = 1
    /\ loadedImages = {}
    /\ nCalls = 2

\* C21: a 'low' task does not leave the queue (its status does not leave
\* pending) while the delay timer set by its own preload call is pending.
LowWaitsForItsTimer ==
    [][\A i \in 1..(Len(pendingTasks) - Len(pendingTasks')) :
           pendingTasks[i].priority = "low" =>
               pendingTasks[i].timer \notin SeqToSet(delayTimers)]_vars

\* C28: no wake-up is lost: whenever the queue holds a task, a drain chain is
\* active with its callback registered or a delay timer is pending; and when
\* timers fire and idle callbacks are granted with time remaining, a queue that
\* holds tasks is eventually drained, so every task is dequeued and started.
NoLostWakeUp ==
    /\ [](pendingTasks # <<>> =>
             \/ isIdleLoading /\ drainCallbacks > 0
             \/ delayTimers # <<>>)
    /\ (pendingTasks # <<>> ~> pendingTasks = <<>>)

\* C28 witness: a drain chain has started a queued task and is still active
\* with tasks in the queue, while the delay timer of a 'low' call is pending.
DrainingWithTimerPending ==
    /\ pendingTasks # <<>>
    /\ isIdleLoading
    /\ delayTimers # <<>>
    /\ \E u \in Urls : QueueFetches(u) > 0

\* C22: a failed fetch is never cached: after the load of a URL has failed,
\* isLoaded(url) is false.
FailedFetchNotCached ==
    [][/\ \A f \in BagToSet(fetches) : ImageOnError(f) => ~isLoaded(f.url)'
       /\ \A l \in BagToSet(highLoops) : HighImageOnError(l) => ~isLoaded(l.url)'
      ]_vars

\* C23: the unmount of the viewer aborts nothing in flight and empties
\* nothing: it only flags the suspended high loops. A flagged loop starts no
\* further fetch when the Image it awaits settles, that Image still caches its
\* URL when it loads, and the queue is still drained while no viewer is mounted.
UnmountStopsHighLoopsOnly ==
    /\ [][(mounted /\ ~mounted') =>
             /\ \A l \in BagToSet(highLoops') : l.aborted
             /\ \A u \in Urls : InFlightIn(fetches', highLoops', u) = InFlight(u)
             /\ UNCHANGED <<loadedImages, pendingTasks, isIdleLoading, fetches,
                            delayTimers, drainCallbacks>>]_vars
    /\ [][\A l \in BagToSet(highLoops) :
             l.aborted =>
                 /\ HighImageOnLoad(l) =>
                        /\ isLoaded(l.url)'
                        /\ highLoops' = highLoops (-) One(l)
                 /\ HighImageOnError(l) => highLoops' = highLoops (-) One(l)]_vars
    /\ [](~mounted /\ drainCallbacks > 0 /\ pendingTasks # <<>> =>
             ENABLED (\/ \E k \in 1..Len(pendingTasks) : IdleCallback(k)
                      \/ FallbackProcess))

\* C23 witness: the viewer has unmounted while its high loop awaits an Image
\* with another URL, not loaded, still to visit, and with tasks in the queue.
UnmountedMidLoop ==
    /\ ~mounted
    /\ pendingTasks # <<>>
    /\ \E l \in BagToSet(highLoops) :
           /\ l.aborted
           /\ l.rest # <<>>
           /\ ~isLoaded(Head(l.rest))

----------------------------------------------------------------------------
\* The viewer's layout (FlipbookViewer.tsx 672-729). Lengths are fractions
\* [num, den] with den > 0, the ratio is height / width of a page.

Less(a, b) == a.num * b.den < b.num * a.den
Times(a, r) == Frac(a.num * r.num, a.den * r.den)
Over(a, r) == Frac(a.num * r.den, a.den * r.num)
\* Math.floor
Floor(a) == a.num \div a.den

\* 680-681
ModeOfOffByOne(w) == IF w <= Breakpoint THEN "single" ELSE "double"

ModeOf(w) == IF w < Breakpoint THEN "single" ELSE "double"

\* 692-693, 704-705
MaxHeight(mode, ch) == IF mode = "single" THEN Frac(ch - 40, 1) ELSE Frac(ch - 60, 1)
MaxWidth(mode, cw) == IF mode = "single" THEN Frac(cw - 40, 1) ELSE Frac(cw - 80, 2)

\* the fit without the test of line 698 / 710: always height-first
FitHeightOnly(maxH, maxW, ratio) ==
    [branch |-> "height", targetHeight |-> maxH, targetWidth |-> Over(maxH, ratio)]

\* 695-701, 707-713: height-first, width-first when the width overflows
FitToContainer(maxH, maxW, ratio) ==
    IF Less(maxW, Over(maxH, ratio))
    THEN [branch |-> "width", targetWidth |-> maxW, targetHeight |-> Times(maxW, ratio)]
    ELSE [branch |-> "height", targetHeight |-> maxH, targetWidth |-> Over(maxH, ratio)]

\* the layout without the sanity check of line 717
NoWidthClamp(tw) == [clamped |-> FALSE, value |-> tw]

\* 717
ClampWidth(tw) ==
    IF Less(tw, Frac(MinWidth, 1))
    THEN [clamped |-> TRUE, value |-> Frac(MinWidth, 1)]
    ELSE [clamped |-> FALSE, value |-> tw]

\* the layout without the sanity check of line 718
NoHeightClamp(th, ratio) == [clamped |-> FALSE, value |-> th]

\* 718
ClampHeight(th, ratio) ==
    IF Less(th, Times(Frac(MinWidth, 1), ratio))
    THEN [clamped |-> TRUE, value |-> Times(Frac(MinWidth, 1), ratio)]
    ELSE [clamped |-> FALSE, value |-> th]

\* calculateLayout (673-724): the mode, the locals and the floored sheet
calculateLayout(cw, ch, ww, ratio) ==
    LET mode == ModeOf(ww)
        fit == FitToContainer(MaxHeight(mode, ch), MaxWidth(mode, cw), ratio)
        w == ClampWidth(fit.targetWidth)
        h == ClampHeight(fit.targetHeight, ratio)
    IN  [mode |-> mode,
         locals |-> [mode |-> mode, branch |-> fit.branch,
                     clampW |-> w.clamped, clampH |-> h.clamped,
                     targetWidth |-> w.value, targetHeight |-> h.value],
         baseDim |-> [width |-> Floor(w.value), height |-> Floor(h.value)]]

\* the state a calculateLayout run leaves (682, 720-723)
ApplyLayout(cw, ch, ww, ratio) ==
    LET l == calculateLayout(cw, ch, ww, ratio)
    IN  /\ viewMode' = l.mode
        /\ baseDim' = l.baseDim
        /\ layout' = l.locals

\* The documents of a viewer session: one with pre-rendered page images, one
\* without (a raw PDF parsed in the browser)
PdfPages == 6

Docs == {1, 2}

\* the pageImageUrls prop of a document (undefined reads as no images)
DocImages(d) == IF d = 1 THEN [i \in 1..NumUrls |-> i] ELSE <<>>

\* the page count of a document
DocPages(d) == IF d = 1 THEN NumUrls ELSE PdfPages

\* height / width of the first page of a document
DocRatio(d) == IF d = 1 THEN Frac(3, 4) ELSE Frac(1, 1)

\* hasPrerenderedImages (571)
hasPrerenderedImages(d) ==
    Len(DocImages(d)) > 0 /\ \E i \in 1..Len(DocImages(d)) : DocImages(d)[i] # Null

\* initialPages (647, 624)
initialPagesOf(mode) == IF mode = "double" THEN 2 ELSE 1

\* the preload-on-flip effect (622-627) of a render showing document d at page
\* 'page' in view mode 'mode'
flipEffect(st, d, page, mode) ==
    IF hasPrerenderedImages(d) /\ page > 1
    THEN preloadForViewer(st, DocImages(d), page, initialPagesOf(mode))
    ELSE st

\* the pre-rendered effect's preload (614-617) of a render showing document d
openEffect(st, d, ww) ==
    IF hasPrerenderedImages(d)
    THEN preloadForViewer(st, DocImages(d), 1, IF ww >= Breakpoint THEN 2 ELSE 1)
    ELSE st

\* Inputs: viewport widths around the breakpoint, containers from smaller than
\* the reserved margins to a desktop pane, page ratios of portrait, square and
\* landscape sheets
ViewportWidths == {375, 1023, 1024, 1400}
ContainerWidths == {30, 100, 375, 700, 1023, 1200, 1400}
ContainerHeights == {30, 100, 340, 600, 800}
Ratios == {DefaultRatio, Frac(3, 4), Frac(1, 1), Frac(2, 1), Frac(9, 16)}

\* the container is no wider than the window
Sizes == {s \in ViewportWidths \X ContainerWidths \X ContainerHeights : s[2] <= s[1]}

SchedQuiet ==
    /\ SchedIdle
    /\ hasRequestIdleCallback = TRUE

\* the viewer after its first render and effects (557-584, 672-729)
InitViewer ==
    /\ SchedQuiet
    /\ TiersIdle
    /\ \E s \in Sizes :
        /\ windowW = s[1]
        /\ containerW = s[2]
        /\ containerH = s[3]
    /\ pdfRatio = DefaultRatio
    /\ viewMode = calculateLayout(containerW, containerH, windowW, pdfRatio).mode
    /\ baseDim = calculateLayout(containerW, containerH, windowW, pdfRatio).baseDim
    /\ layout = calculateLayout(containerW, containerH, windowW, pdfRatio).locals
    /\ lastOp = "mount"
    /\ RestIdle

\* the window's resize event (727): calculateLayout reads the new sizes
WindowResize(s) ==
    /\ windowW' = s[1]
    /\ containerW' = s[2]
    /\ containerH' = s[3]
    /\ ApplyLayout(s[2], s[3], s[1], pdfRatio)
    /\ lastOp' = "resize"
    /\ UNCHANGED <<pdfRatio, schedVars, tierVars, restVars>>

\* setPdfRatio (609, 640) with a new value: the layout effect runs again (729)
RatioDiscovered(r) ==
    /\ r # pdfRatio
    /\ pdfRatio' = r
    /\ ApplyLayout(containerW, containerH, windowW, r)
    /\ lastOp' = "ratio"
    /\ UNCHANGED <<containerW, containerH, windowW, schedVars, tierVars, restVars>>

\* the file / pageImageUrls props change: the reset effect (587-595) and the
\* layout effect (672-729), up to the render in which pdfRatio is the default
DocumentChange ==
    /\ pdfRatio' = DefaultRatio
    /\ ApplyLayout(containerW, containerH, windowW, DefaultRatio)
    /\ lastOp' = "document"
    /\ UNCHANGED <<containerW, containerH, windowW, schedVars, tierVars, restVars>>

\* the view-mode toolbar buttons (860-875), displayed from the lg breakpoint
SetViewModeButton(mode) ==
    /\ windowW >= Breakpoint
    /\ viewMode' = mode
    /\ lastOp' = "toolbar"
    /\ SetSched(IF mode # viewMode
                THEN flipEffect(SchedState, file, pageNumber, mode)
                ELSE SchedState)
    /\ UNCHANGED <<containerW, containerH, windowW, pdfRatio, baseDim, layout,
                   hasRequestIdleCallback, mounted, nCalls, tierVars, restVars>>

NextViewer ==
    \/ \E s \in Sizes : WindowResize(s)
    \/ \E r \in Ratios : RatioDiscovered(r)
    \/ DocumentChange
    \/ \E mode \in {"single", "double"} : SetViewModeButton(mode)

SpecViewer == InitViewer /\ [][NextViewer]_vars

----------------------------------------------------------------------------
\* Properties of the layout (SpecViewer)

\* C7: viewMode is 'single' exactly when the viewport is narrower than 1024.
ViewModeFollowsViewport ==
    /\ windowW < 1024 => viewMode = "single"
    /\ windowW >= 1024 => viewMode = "double"

\* C7, amended: in the state a layout recalculation leaves (mount, window
\* resize, ratio change, document change) viewMode is 'single' exactly when the
\* viewport is narrower than 1024; only the toolbar buttons set it otherwise.
ViewModeAfterLayout ==
    lastOp # "toolbar" => ViewModeFollowsViewport

\* C7 witness: a resize recalculated the layout at the breakpoint width.
ResizedAtBreakpoint ==
    /\ lastOp = "resize"
    /\ windowW = 1024
    /\ viewMode = "double"

\* the available size the claims state: container - 40 on each axis in single
\* mode, (containerWidth - 80) / 2 and containerHeight - 60 in double mode
AvailH == IF windowW < 1024 THEN containerH - 40 ELSE containerH - 60
AvailW2 == IF windowW < 1024 THEN 2 * (containerW - 40) ELSE containerW - 80

\* no floor clamp applies: the fitted sheet is at least 200 wide
NoClampApplies ==
    /\ AvailW2 >= 2 * 200
    /\ AvailH * pdfRatio.den >= 200 * pdfRatio.num

\* C8: where no clamp applies the sheet overflows neither axis and fills one
\* of them up to flooring; ratio 1.414 in a 1200x800 container at viewport 1400
\* gives height <= 740 and width <= 560.
SheetFitsContainer ==
    /\ NoClampApplies =>
        /\ 2 * baseDim.width <= AvailW2
        /\ baseDim.height <= AvailH
        /\ \/ baseDim.height = AvailH
           \/ baseDim.width = AvailW2 \div 2
    /\ (pdfRatio = DefaultRatio /\ containerW = 1200 /\ containerH = 800
            /\ windowW = 1400) =>
           baseDim.height <= 740 /\ baseDim.width <= 560

\* C8 witness: a landscape page in a tall pane is fitted width-first, unclamped.
WidthFirstFit ==
    /\ NoClampApplies
    /\ layout.branch = "width"
    /\ baseDim.width = AvailW2 \div 2
    /\ baseDim.height < AvailH

\* C9: the sheet is at least 200 wide and floor(200 * ratio) high, also for
\* containers smaller than the margins; a 100x100 container gives width 200.
SheetAtLeastMinimum ==
    /\ baseDim.width >= 200
    /\ baseDim.height >= (200 * pdfRatio.num) \div pdfRatio.den
    /\ (containerW = 100 /\ containerH = 100) => baseDim.width = 200

\* C9 witness: a container smaller than the margins, the available size negative.
NegativeAvailableSize ==
    /\ AvailH < 0
    /\ AvailW2 < 0
    /\ baseDim.width = 200

\* C10: before flooring targetHeight = targetWidth * ratio in every branch, the
\* two clamps fire together, and after flooring
\* |height - width * ratio| < max(1, ratio).
Abs(x) == IF x < 0 THEN 0 - x ELSE x

SheetKeepsRatio ==
    /\ layout.targetHeight.num * layout.targetWidth.den * pdfRatio.den =
           layout.targetWidth.num * pdfRatio.num * layout.targetHeight.den
    /\ layout.clampW <=> layout.clampH
    /\ Abs(baseDim.height * pdfRatio.den - baseDim.width * pdfRatio.num) <
           Max(pdfRatio.den, pdfRatio.num)

\* C10 witness: both clamps fired on a sheet that is not square.
BothClampsFired ==
    /\ layout.clampW
    /\ layout.clampH
    /\ pdfRatio.num # pdfRatio.den
    /\ lastOp = "ratio"

\* the sheet the calculator's branch for the given mode yields for the current
\* container and ratio
SheetFor(mode) ==
    LET fit == FitToContainer(MaxHeight(mode, containerH), MaxWidth(mode, containerW),
                              pdfRatio)
    IN  [width |-> Floor(ClampWidth(fit.targetWidth).value),
         height |-> Floor(ClampHeight(fit.targetHeight, pdfRatio).value)]

\* C24: the base sheet dimensions are never stale: baseDim is the calculator's
\* result for the current container size, viewport width and ratio, and it is
\* the sheet of the current viewMode.
BaseDimNeverStale ==
    /\ baseDim = calculateLayout(containerW, containerH, windowW, pdfRatio).baseDim
    /\ baseDim = SheetFor(viewMode)

----------------------------------------------------------------------------
\* SpecSession: one viewer session over document changes, page flips, page
\* renders, ratio discovery, the zoom buttons and the view-mode buttons

\* PRELOAD_AHEAD (493)
PreloadAhead == 2

\* a reset effect that leaves the zoom scale alone
keepScale(sc) == sc

\* setScale(1.0) of the reset effect (593)
resetScale(sc) == 10

\* shouldRenderPage (649-658) on a 0-based page index
shouldRenderPage(pageIndex) ==
    LET currentIndex == pageNumber - 1
        maxLoadedIndex == currentIndex + PreloadAhead
    IN  \/ pageIndex < initialPagesOf(viewMode)
        \/ pageIndex <= maxLoadedIndex

\* Math.round of the non-negative quotient n / d
Round(n, d) == (2 * n + d) \div (2 * d)

\* expectedPages (666)
expectedPages == Min(numPages, initialPagesOf(viewMode) + PreloadAhead)

\* loadProgress (667-669), in percent
loadProgress ==
    IF numPages > 0 THEN Round(Cardinality(loadedPages) * 100, expectedPages) ELSE 0

\* the viewer after mounting on document d in a desktop window: the reset,
\* pre-rendered and layout effects have run; the images of the pre-rendered
\* document are in the preloader's cache from an earlier viewing
InitSession ==
    /\ loadedImages = Urls
    /\ pendingTasks = <<>>
    /\ isIdleLoading = FALSE
    /\ fetches = EmptyBag
    /\ highLoops = EmptyBag
    /\ delayTimers = <<>>
    /\ drainCallbacks = 0
    /\ unhandledRejection = FALSE
    /\ mounted = TRUE
    /\ nCalls = 0
    /\ hasRequestIdleCallback = TRUE
    /\ TiersIdle
    /\ windowW = 1400
    /\ containerW = 1200
    /\ containerH = 800
    /\ pdfRatio = DefaultRatio
    /\ viewMode = calculateLayout(containerW, containerH, windowW, pdfRatio).mode
    /\ baseDim = calculateLayout(containerW, containerH, windowW, pdfRatio).baseDim
    /\ layout = calculateLayout(containerW, containerH, windowW, pdfRatio).locals
    /\ lastOp = "mount"
    /\ file \in Docs
    /\ numPages = IF hasPrerenderedImages(file) THEN Len(DocImages(file)) ELSE 0
    /\ pageNumber = 1
    /\ scale = 10
    /\ loadedPages = {}
    /\ ratioLoads = IF hasPrerenderedImages(file) THEN {file} ELSE {}
    /\ TapIdle
    /\ SoundIdle
    /\ UploadIdle

\* the file / pageImageUrls props change to document d (App's
\* handleSelectDocument): the effects of that commit run in order -- reset
\* (587-595), pre-rendered (598-619), preload-on-flip (622-627, with the
\* pageNumber and viewMode of the render that committed), layout (672-729) --
\* and the viewer renders again with the state they set
SelectDocument(d) ==
    /\ d # file
    /\ file' = d
    /\ pdfRatio' = DefaultRatio
    /\ numPages' = IF hasPrerenderedImages(d) THEN Len(DocImages(d)) ELSE 0
    /\ pageNumber' = 1
    /\ loadedPages' = {}
    /\ scale' = resetScale(scale)
    /\ ratioLoads' = IF hasPrerenderedImages(d) THEN ratioLoads \cup {d} ELSE ratioLoads
    /\ SetSched(flipEffect(openEffect(SchedState, d, windowW), d, pageNumber, viewMode))
    /\ ApplyLayout(containerW, containerH, windowW, DefaultRatio)
    /\ lastOp' = "document"
    /\ UNCHANGED <<containerW, containerH, windowW, hasRequestIdleCallback, mounted,
                   nCalls, tierVars, tapVars, soundVars, uploadVars>>

\* a selection loop that accepts whatever clip it draws
selectAnyClip(i, last) == FALSE

\* the condition of the do-while loop (270): draw again
keepSelecting(i, last) == i = last /\ PoolSize > 1

\* playFlipSound (255-283) as a whole: the clip its selection loop settles on
playFlipSoundDone(i) ==
    /\ i \in 0..(PoolSize - 1)
    /\ ~keepSelecting(i, lastSoundIndexRef)
    /\ lastSoundIndexRef' = i
    /\ randomIndex' = i
    /\ UNCHANGED selecting

\* onFlip (743-746): the flip widget reports page p; the preload-on-flip effect
\* follows the render
OnFlip(p, i) ==
    /\ numPages > 0
    /\ p \in 1..numPages
    /\ p # pageNumber
    /\ ~selecting
    /\ pageNumber' = p
    /\ playFlipSoundDone(i)
    /\ SetSched(flipEffect(SchedState, file, p, viewMode))
    /\ UNCHANGED <<viewerVars, file, numPages, scale, loadedPages, ratioLoads,
                   hasRequestIdleCallback, mounted, nCalls, tierVars, tapVars,
                   uploadVars>>

\* onDocumentLoadSuccess (630-634), up to its await: the rendering library has
\* parsed the raw document on display
DocumentLoadSuccess ==
    /\ ~hasPrerenderedImages(file)
    /\ numPages = 0
    /\ numPages' = DocPages(file)
    /\ ratioLoads' = ratioLoads \cup {file}
    /\ UNCHANGED <<viewerVars, file, pageNumber, scale, loadedPages, schedVars, tierVars,
                   tapVars, soundVars, uploadVars>>

\* onPageLoadSuccess (661-663) of a page the raw-document list handed to the
\* rendering library (1023-1045)
PageLoadSuccess(pageIndex) ==
    /\ ~selecting
    /\ ~hasPrerenderedImages(file)
    /\ pageIndex \in 0..(numPages - 1)
    /\ shouldRenderPage(pageIndex)
    /\ pageIndex \notin loadedPages
    /\ loadedPages' = loadedPages \cup {pageIndex}
    /\ UNCHANGED <<viewerVars, file, numPages, pageNumber, scale, ratioLoads, schedVars,
                   tierVars, tapVars, soundVars, uploadVars>>

\* the first image of document d loads (607-610), or its getPage(1) resolves
\* (637-640): setPdfRatio with the ratio of d, whatever document is on display;
\* a new ratio runs the layout effect (729) and, if that changes viewMode, the
\* preload-on-flip effect (627)
RatioLoadCompletes(d) ==
    /\ d \in ratioLoads
    /\ ratioLoads' = ratioLoads \ {d}
    /\ pdfRatio' = DocRatio(d)
    /\ IF DocRatio(d) = pdfRatio
       THEN UNCHANGED <<viewMode, baseDim, layout, lastOp, loadedImages,
                        pendingTasks, isIdleLoading, fetches, highLoops,
                        delayTimers, drainCallbacks, unhandledRejection>>
       ELSE /\ ApplyLayout(containerW, containerH, windowW, DocRatio(d))
            /\ lastOp' = "ratio"
            /\ SetSched(IF ModeOf(windowW) # viewMode
                        THEN flipEffect(SchedState, file, pageNumber, ModeOf(windowW))
                        ELSE SchedState)
    /\ UNCHANGED <<containerW, containerH, windowW, file, numPages, pageNumber,
                   scale, loadedPages, hasRequestIdleCallback, mounted, nCalls,
                   tierVars, tapVars, soundVars, uploadVars>>

\* the first image fails to load (no onerror handler) or getPage(1) rejects
\* (641-643): the ratio stays
RatioLoadFails(d) ==
    /\ d \in ratioLoads
    /\ ratioLoads' = ratioLoads \ {d}
    /\ UNCHANGED <<viewerVars, file, numPages, pageNumber, scale, loadedPages, schedVars,
                   tierVars, tapVars, soundVars, uploadVars>>

\* a zoom-in button without the Math.min of line 851
zoomInUnclamped(sc) == sc + 1

\* the zoom-out button (845) on the scale in tenths
zoomOut(sc) == Max(5, sc - 1)

\* the zoom-in button (851)
zoomIn(sc) == Min(15, sc + 1)

\* the reset button (854)
zoomReset(sc) == 10

ZoomButton(op) ==
    /\ scale' = CASE op = "out" -> zoomOut(scale)
                  [] op = "in" -> zoomIn(scale)
                  [] op = "reset" -> zoomReset(scale)
    /\ UNCHANGED <<viewerVars, file, numPages, pageNumber, loadedPages, ratioLoads,
                   schedVars, tierVars, tapVars, soundVars, uploadVars>>

NextSession ==
    \/ \E d \in Docs : SelectDocument(d)
    \/ \E p \in 1..numPages, i \in 0..(PoolSize - 1) : OnFlip(p, i)
    \/ DocumentLoadSuccess
    \/ \E pageIndex \in 0..(numPages - 1) : PageLoadSuccess(pageIndex)
    \/ \E d \in Docs : RatioLoadCompletes(d)
    \/ \E d \in Docs : RatioLoadFails(d)
    \/ \E op \in {"out", "in", "reset"} : ZoomButton(op)
    \/ \E mode \in {"single", "double"} : SetViewModeButton(mode)

SpecSession == InitSession /\ [][NextSession]_vars

----------------------------------------------------------------------------
\* SpecSound: page flips and page renders of a parsed raw document, with
\* playFlipSound's selection loop run one draw at a time

InitSound ==
    /\ SchedQuiet
    /\ TiersIdle
    /\ windowW = 1400
    /\ containerW = 1200
    /\ containerH = 800
    /\ pdfRatio = DocRatio(2)
    /\ viewMode = calculateLayout(containerW, containerH, windowW, pdfRatio).mode
    /\ baseDim = calculateLayout(containerW, containerH, windowW, pdfRatio).baseDim
    /\ layout = calculateLayout(containerW, containerH, windowW, pdfRatio).locals
    /\ lastOp = "ratio"
    /\ file = 2
    /\ numPages = DocPages(2)
    /\ pageNumber = 1
    /\ scale = 10
    /\ loadedPages = {}
    /\ ratioLoads = {}
    /\ TapIdle
    /\ SoundIdle
    /\ UploadIdle

\* onFlip (743-746) up to the do-while loop of playFlipSound (256-268)
FlipStarts(p) ==
    /\ ~selecting
    /\ p \in 1..numPages
    /\ p # pageNumber
    /\ pageNumber' = p
    /\ selecting' = TRUE
    /\ randomIndex' = -1
    /\ SetSched(flipEffect(SchedState, file, p, viewMode))
    /\ UNCHANGED <<lastSoundIndexRef, hasRequestIdleCallback, mounted, nCalls,
                   tierVars, viewerVars, file, numPages, scale, loadedPages,
                   ratioLoads, tapVars, uploadVars>>

\* one iteration of the loop (268-270): Math.random() gives index i; on leaving
\* the loop the clip is recorded and played (272-282)
Draw(i) ==
    /\ selecting
    /\ randomIndex' = i
    /\ IF keepSelecting(i, lastSoundIndexRef)
       THEN UNCHANGED <<lastSoundIndexRef, selecting>>
       ELSE /\ lastSoundIndexRef' = i
            /\ selecting' = FALSE
    /\ UNCHANGED <<schedVars, tierVars, viewerVars, sessionVars, tapVars, uploadVars>>

\* a draw of a clip other than the last one
DrawOther == \E i \in 0..(PoolSize - 1) : i # lastSoundIndexRef /\ Draw(i)

NextSound ==
    \/ \E p \in 1..numPages : FlipStarts(p)
    \/ \E i \in 0..(PoolSize - 1) : Draw(i)
    \/ \E pageIndex \in 0..(numPages - 1) : PageLoadSuccess(pageIndex)

\* Math.random() does not return the last clip's index for ever
SpecSound == InitSound /\ [][NextSound]_vars /\ WF_vars(DrawOther)

\* C14: a playFlipSound call never settles on the clip of the call before it,
\* and its selection loop terminates.
FlipSoundNeverRepeats ==
    /\ [][(selecting /\ ~selecting') => lastSoundIndexRef' # lastSoundIndexRef]_vars
    /\ (selecting ~> ~selecting)

\* C14 witness: the loop drew the clip of the previous call and draws again.
DrewLastClipAgain ==
    /\ selecting
    /\ randomIndex >= 0
    /\ randomIndex = lastSoundIndexRef

----------------------------------------------------------------------------
\* SpecZoom: the zoom scale under the zoom buttons, double taps / clicks on
\* the book container and document changes

\* DOUBLE_TAP_DELAY (755, 773), in ms
DoubleTapDelay == 300

\* tap / click events per behaviour, and the time they span in ms
MaxTaps == 3
MaxElapsed == 602

\* the time between two events: just below, at and just above the delay
TapGaps == {DoubleTapDelay - 1, DoubleTapDelay, DoubleTapDelay + 1}

\* a double-tap test that accepts a gap of exactly the delay
withinDelayInclusive(elapsed) == elapsed <= DoubleTapDelay

\* now - lastTapRef.current < DOUBLE_TAP_DELAY (757, 775)
withinDoubleTapDelay(elapsed) == elapsed < DoubleTapDelay

\* setScale(s => s === 1.0 ? 1.4 : 1.0) (758, 776)
toggleScale(sc) == IF sc = 10 THEN 14 ELSE 10

\* the timer logic shared by handleTouchEnd (754-762) and handleClick (772-780)
doubleTapLogic ==
    LET toggles == withinDoubleTapDelay(now - lastTapRef)
        after == IF toggles THEN toggleScale(scale) ELSE scale
    IN  /\ scale' = after
        /\ lastTapRef' = IF toggles THEN 0 ELSE now
        /\ taps' = Append(taps, [at |-> now, toggled |-> toggles])

\* handleTouchEnd (752-763). The touch is a tap, after which the browser
\* dispatches a click, or a swipe / scroll / long press, which ends without one
handleTouchEnd(tap) ==
    /\ Len(taps) < MaxTaps
    /\ ~clickPending
    /\ clickPending' = tap
    /\ isTouchRef' = TRUE
    /\ doubleTapLogic
    /\ UNCHANGED <<now, file, numPages, pageNumber, loadedPages, ratioLoads,
                   schedVars, tierVars, viewerVars, soundVars, uploadVars>>

\* handleClick (765-781): the click that follows a touch is skipped. The
\* click is the one the browser synthesizes after a tap, or a mouse click
handleClick(synthesized) ==
    /\ clickPending = synthesized
    /\ clickPending' = FALSE
    /\ IF isTouchRef
       THEN /\ isTouchRef' = FALSE
            /\ UNCHANGED <<scale, lastTapRef, taps>>
       ELSE /\ Len(taps) < MaxTaps
            /\ doubleTapLogic
            /\ UNCHANGED isTouchRef
    /\ UNCHANGED <<now, file, numPages, pageNumber, loadedPages, ratioLoads,
                   schedVars, tierVars, viewerVars, soundVars, uploadVars>>

\* time passes between two events
Tick(gap) ==
    /\ now + gap <= StartTime + MaxElapsed
    /\ now' = now + gap
    /\ UNCHANGED <<lastTapRef, isTouchRef, taps, clickPending, schedVars, tierVars,
                   viewerVars, sessionVars, soundVars, uploadVars>>

NextZoom ==
    \/ \E tap \in BOOLEAN : handleTouchEnd(tap)
    \/ \E synthesized \in BOOLEAN : handleClick(synthesized)
    \/ \E gap \in TapGaps : Tick(gap)
    \/ \E op \in {"out", "in", "reset"} : ZoomButton(op)
    \/ \E d \in Docs : SelectDocument(d)

SpecZoom == InitSession /\ [][NextZoom]_vars

\* C12: a tap / click toggles the zoom exactly when the event before it did
\* not toggle and lies strictly less than 300 ms back (the first event and
\* the event after a toggle never toggle; gaps of 300 and 301 ms do not); a
\* toggle sets the scale to 1.4 from 1.0 and to 1.0 from any other value, and
\* a tap that does not toggle leaves the scale.
DoubleTapTogglesZoom ==
    /\ [](\A k \in 1..Len(taps) :
            taps[k].toggled <=>
                /\ k > 1
                /\ ~taps[k - 1].toggled
                /\ taps[k].at - taps[k - 1].at < 300)
    /\ [][taps' # taps =>
             scale' = IF ~taps'[Len(taps')].toggled THEN scale
                      ELSE IF scale = 10 THEN 14 ELSE 10
         ]_vars

\* C12 witness: the second event toggled the zoom to 1.4, the third came
\* within 300 ms of it and did not toggle.
ThirdTapDoesNotToggle ==
    /\ Len(taps) = 3
    /\ taps[2].toggled
    /\ taps[3].at - taps[2].at < 300
    /\ ~taps[3].toggled
    /\ scale = 14

\* C13: the zoom scale stays within [0.5, 1.5].
ZoomWithinLimits ==
    scale \in 5..15

\* C13 witness: after a document change a double tap toggled the zoom and a
\* zoom-in step took it to the upper limit.
ZoomedInAfterToggle ==
    /\ scale = 15
    /\ Len(taps) = 2
    /\ taps[2].toggled
    /\ file = 2
    /\ lastOp = "document"

\* C25: touch and mouse handling are mutually exclusive per interaction: a
\* touch runs the double-tap logic once, in handleTouchEnd, and the click the
\* browser synthesizes for it runs nothing; a mouse click runs the logic once,
\* whatever touches came before it.
TouchAndMouseExclusive ==
    [][/\ \A tap \in BOOLEAN :
             handleTouchEnd(tap) => Len(taps') = Len(taps) + 1
       /\ handleClick(TRUE) => UNCHANGED <<taps, scale, lastTapRef>>
       /\ handleClick(FALSE) => Len(taps') = Len(taps) + 1]_vars

----------------------------------------------------------------------------
\* SpecUpload: handleUpload (Uploader.tsx 77-153) against the file storage and
\* the documents table (convex/documents.ts 10-34, convex/schema.ts 15-26)

\* pages of an uploaded PDF, and blobs the storage holds
MaxUploadPages == 3
MaxStored == 8

\* the fields of the documents table (schema.ts 16-22)
DocumentsSchema ==
    {"title", "categoryId", "date", "storageId", "active", "order", "createdAt"}

\* allDocs.reduce((max, d) => Math.max(max, d.order || 0), 0) (documents.ts 20,
\* categories 47)
maxOrderOf(table) ==
    IF table = {} THEN 0
    ELSE CHOOSE m \in {r.order : r \in table} \cup {0} :
            \A r \in table : r.order <= m

\* maxOrder of saveDocument (19-20)
maxOrder == maxOrderOf(documentsTable)

\* the record saveDocument inserts (22-31) under a new id; title, date and
\* creation time are not told apart, and a field given as undefined is not
\* part of the record
NewDocument(id, args) ==
    IF "pageImages" \in DOMAIN args
    THEN [_id |-> id, title |-> "title", categoryId |-> args.categoryId,
          date |-> "date", storageId |-> args.storageId,
          pageImages |-> args.pageImages, active |-> TRUE,
          order |-> maxOrder + 1, createdAt |-> "now"]
    ELSE [_id |-> id, title |-> "title", categoryId |-> args.categoryId,
          date |-> "date", storageId |-> args.storageId, active |-> TRUE,
          order |-> maxOrder + 1, createdAt |-> "now"]

\* ctx.db.insert validates the record against the table's schema: a field
\* the table does not declare is rejected (_id is a system field)
insertAccepts(record) == DOMAIN record \ {"_id"} \subseteq DocumentsSchema

\* a catch block without setUploading(false)
catchKeepsFlag(step) == [uploading |-> TRUE, step |-> "failed"]

\* a failed step throws (96, 122, or a rejected await) into the catch block
\* (147-152): setUploading(false), and the handler returns
catchError(step) == [uploading |-> FALSE, step |-> "failed"]

\* handleUpload starts on a PDF of n pages with a category selected (78-85)
StartUpload(n) ==
    /\ ~uploading
    /\ Len(storage) + n + 1 <= MaxStored
    /\ uploading' = TRUE
    /\ uploadStep' = "pdf"
    /\ uploadNumPages' = n
    /\ storageId' = 0
    /\ pageImageIds' = <<>>
    /\ saveCalls' = 0
    /\ UNCHANGED <<storage, documentsTable, categoriesTable, created, schedVars,
                   tierVars, viewerVars, sessionVars, tapVars, soundVars>>

\* step 1 (88-97) and the parse of step 2 (101-105): the PDF is stored, or a
\* failed request or an unreadable file throws (147-152)
PdfUploaded(ok) ==
    /\ uploadStep = "pdf"
    /\ IF ok
       THEN /\ storage' = Append(storage, [kind |-> "pdf", page |-> 0])
            /\ storageId' = Len(storage) + 1
            /\ uploadStep' = "pages"
            /\ UNCHANGED uploading
       ELSE /\ uploadStep' = catchError(uploadStep).step
            /\ uploading' = catchError(uploadStep).uploading
            /\ UNCHANGED <<storage, storageId>>
    /\ UNCHANGED <<uploadNumPages, pageImageIds, documentsTable, saveCalls,
                   categoriesTable, created, schedVars, tierVars, viewerVars,
                   sessionVars, tapVars, soundVars>>

\* one iteration of the page loop (107-127): page i is rendered and stored and
\* its id pushed; after the last page saveDocument is called (131-137)
PageUploaded(ok) ==
    LET i == Len(pageImageIds) + 1
    IN  /\ uploadStep = "pages"
        /\ IF ok
           THEN /\ storage' = Append(storage, [kind |-> "page", page |-> i])
                /\ pageImageIds' = Append(pageImageIds, Len(storage) + 1)
                /\ IF i = uploadNumPages
                   THEN uploadStep' = "saving" /\ saveCalls' = saveCalls + 1
                   ELSE UNCHANGED <<uploadStep, saveCalls>>
                /\ UNCHANGED uploading
           ELSE /\ uploadStep' = catchError(uploadStep).step
                /\ uploading' = catchError(uploadStep).uploading
                /\ UNCHANGED <<storage, pageImageIds, saveCalls>>
        /\ UNCHANGED <<uploadNumPages, storageId, documentsTable, categoriesTable,
                       created, schedVars, tierVars, viewerVars, sessionVars,
                       tapVars, soundVars>>

\* the saveDocument mutation runs (documents.ts 17-33) and handleUpload
\* resumes (139-152); delivered = FALSE is a request that does not arrive
\* (categoryId 1 stands for selectedCategoryId)
SaveDocument(delivered) ==
    LET record == NewDocument(created.documents + 1,
                              [categoryId |-> 1, storageId |-> storageId,
                               pageImages |-> pageImageIds])
    IN  /\ uploadStep = "saving"
        /\ uploading' = FALSE
        /\ IF ~delivered
           THEN uploadStep' = "failed" /\ UNCHANGED <<documentsTable, created>>
           ELSE IF insertAccepts(record)
           THEN /\ uploadStep' = "done"
                /\ documentsTable' = documentsTable \cup {record}
                /\ created' = [created EXCEPT !.documents = @ + 1]
           ELSE uploadStep' = "rejected" /\ UNCHANGED <<documentsTable, created>>
        /\ UNCHANGED <<uploadNumPages, storageId, pageImageIds, storage, saveCalls,
                       categoriesTable, schedVars, tierVars, viewerVars, sessionVars,
                       tapVars, soundVars>>

InitUpload ==
    /\ SchedQuiet
    /\ TiersIdle
    /\ ViewerIdle
    /\ RestIdle

NextUpload ==
    \/ \E n \in 1..MaxUploadPages : StartUpload(n)
    \/ \E ok \in BOOLEAN : PdfUploaded(ok)
    \/ \E ok \in BOOLEAN : PageUploaded(ok)
    \/ \E delivered \in BOOLEAN : SaveDocument(delivered)

SpecUpload == InitUpload /\ [][NextUpload]_vars

\* C15: an upload whose requests all succeed has stored one image per page in
\* page order, has called saveDocument once with their ids in that order, and
\* has produced a document record whose pageImages is that list of length N.
UploadYieldsRecord ==
    uploadStep \in {"saving", "done", "rejected"} =>
        /\ Len(pageImageIds) = uploadNumPages
        /\ \A i \in 1..uploadNumPages :
               storage[pageImageIds[i]] = [kind |-> "page", page |-> i]
        /\ saveCalls = 1
        /\ uploadStep # "saving" =>
               \E d \in documentsTable :
                   /\ "pageImages" \in DOMAIN d
                   /\ d.pageImages = pageImageIds
                   /\ Len(d.pageImages) = uploadNumPages

\* C26: a failed upload step ends the upload: the failing step stores and
\* saves nothing and sets the uploading flag to false; while the flag is false
\* nothing is stored and no record is created; and an upload that failed at
\* the PDF or at page i has stored no page after the failing one and has not
\* called saveDocument.
FailureEndsUpload ==
    /\ [][(PdfUploaded(FALSE) \/ PageUploaded(FALSE) \/ SaveDocument(FALSE)) =>
             /\ ~uploading'
             /\ UNCHANGED <<storage, documentsTable, pageImageIds, saveCalls>>]_vars
    /\ [][~uploading => UNCHANGED <<storage, documentsTable>> /\ saveCalls' = 0]_vars
    /\ [](~uploading /\ uploadStep = "failed" /\ Len(pageImageIds) < uploadNumPages =>
             /\ saveCalls = 0
             /\ storageId > 0 => Len(storage) = storageId + Len(pageImageIds))

\* C26 witness: the upload of a PDF of three pages failed at page 2.
FailedAtSecondPage ==
    /\ ~uploading
    /\ uploadStep = "failed"
    /\ uploadNumPages = 3
    /\ storageId > 0
    /\ Len(pageImageIds) = 1

\* C30: when no upload is running, every blob in the storage is the PDF or a
\* page image of some document record.
NoOrphanBlobs ==
    ~uploading =>
        \A i \in 1..Len(storage) :
            \E d \in documentsTable :
                \/ d.storageId = i
                \/ "pageImages" \in DOMAIN d /\ i \in SeqToSet(d.pageImages)

----------------------------------------------------------------------------
\* SpecBackend: the mutations and queries of the backend (convex/categories.ts,
\* convex/documents.ts) called in any order. A mutation is a transaction: one
\* that throws changes nothing.

\* ids issued per table
MaxCategories == 2
MaxDocuments == 2

CategoryNames == {"name1", "name2"}

\* ctx.db.get(id): the record found, none for null
Get(table, id) == {r \in table : r._id = id}

Ids(table) == {r._id : r \in table}

\* the argument lists of a reorder call: ids of the table, each once
Orderings(table) ==
    UNION {{ids \in [1..n -> Ids(table)] :
               \A i, j \in 1..n : ids[i] = ids[j] => i = j} :
           n \in 1..Cardinality(table)}

\* args.ids.map((id, index) => ctx.db.patch(id, { order: index }))
\* (categories 89-91, documents.ts 148-150)
Reordered(table, ids) ==
    {IF \E i \in 1..Len(ids) : ids[i] = r._id
     THEN [r EXCEPT !.order = (CHOOSE i \in 1..Len(ids) : ids[i] = r._id) - 1]
     ELSE r : r \in table}

\* ctx.storage.delete of each id in ids
StorageDelete(ids) ==
    [i \in 1..Len(storage) |->
        IF i \in ids THEN [kind |-> "deleted", page |-> 0] ELSE storage[i]]

backendRest ==
    <<uploading, uploadStep, uploadNumPages, storageId, pageImageIds, saveCalls,
      schedVars, tierVars, viewerVars, sessionVars, tapVars, soundVars>>

\* categories.create (39-57)
categoriesCreate(name) ==
    /\ created.categories < MaxCategories
    /\ categoriesTable' = categoriesTable \cup
            {[_id |-> created.categories + 1, name |-> name, active |-> TRUE,
              order |-> maxOrderOf(categoriesTable) + 1]}
    /\ created' = [created EXCEPT !.categories = @ + 1]
    /\ UNCHANGED <<documentsTable, storage, backendRest>>

\* categories.update (59-71): patch throws on a record that does not exist
categoriesUpdate(id, name) ==
    /\ categoriesTable' =
            {IF r._id = id THEN [r EXCEPT !.name = name] ELSE r : r \in categoriesTable}
    /\ UNCHANGED <<created, documentsTable, storage, backendRest>>

\* categories.toggleActive (73-81)
categoriesToggleActive(id) ==
    /\ categoriesTable' =
            {IF r._id = id THEN [r EXCEPT !.active = ~@] ELSE r : r \in categoriesTable}
    /\ UNCHANGED <<created, documentsTable, storage, backendRest>>

\* categories.reorder (83-93)
categoriesReorder(ids) ==
    /\ categoriesTable' = Reordered(categoriesTable, ids)
    /\ UNCHANGED <<created, documentsTable, storage, backendRest>>

\* the test of categories.remove (98-105): documents refer to the category
removeRefused(id) == \E d \in documentsTable : d.categoryId = id

\* categories.remove (95-109)
categoriesRemove(id) ==
    /\ categoriesTable' =
            IF removeRefused(id) THEN categoriesTable
            ELSE {r \in categoriesTable : r._id # id}
    /\ UNCHANGED <<created, documentsTable, storage, backendRest>>

\* documents.saveDocument (10-34) called with an issued category id and the
\* id of a stored PDF, with or without a pageImages array
saveDocument(categoryId, withPages) ==
    LET id == created.documents + 1
        args == IF withPages
                THEN [categoryId |-> categoryId, storageId |-> id, pageImages |-> <<>>]
                ELSE [categoryId |-> categoryId, storageId |-> id]
        record == NewDocument(id, args)
    IN  /\ created.documents < MaxDocuments
        /\ IF insertAccepts(record)
           THEN /\ documentsTable' = documentsTable \cup {record}
                /\ created' = [created EXCEPT !.documents = @ + 1]
           ELSE UNCHANGED <<documentsTable, created>>
        /\ UNCHANGED <<categoriesTable, storage, backendRest>>

\* documents.updateDocument (117-129)
updateDocument(id, categoryId) ==
    /\ documentsTable' =
            {IF r._id = id THEN [r EXCEPT !.categoryId = categoryId] ELSE r :
             r \in documentsTable}
    /\ UNCHANGED <<created, categoriesTable, storage, backendRest>>

\* documents.toggleActive (132-140)
documentsToggleActive(id) ==
    /\ documentsTable' =
            {IF r._id = id THEN [r EXCEPT !.active = ~@] ELSE r : r \in documentsTable}
    /\ UNCHANGED <<created, categoriesTable, storage, backendRest>>

\* documents.reorder (143-152)
documentsReorder(ids) ==
    /\ documentsTable' = Reordered(documentsTable, ids)
    /\ UNCHANGED <<created, categoriesTable, storage, backendRest>>

\* documents.deleteDocument (155-171)
deleteDocument(id) ==
    LET doc == Get(documentsTable, id)
        blobs == UNION {{d.storageId} \cup
                        (IF "pageImages" \in DOMAIN d
                         THEN SeqToSet(d.pageImages) ELSE {}) : d \in doc}
    IN  /\ storage' = StorageDelete(blobs)
        /\ documentsTable' = documentsTable \ doc
        /\ UNCHANGED <<created, categoriesTable, backendRest>>

\* .withIndex("by_order").collect(): ascending order, then creation
RECURSIVE ByOrder(_)
ByOrder(table) ==
    IF table = {} THEN <<>>
    ELSE LET first == CHOOSE r \in table :
                          \A q \in table :
                              \/ r.order < q.order
                              \/ r.order = q.order /\ r._id <= q._id
         IN  <<first>> \o ByOrder(table \ {first})

\* a listing that shows the documents of every category
categoryAny(category) == TRUE

\* category?.active (77)
categoryVisible(category) == \E c \in category : c.active

RECURSIVE Flatten(_)
Flatten(seqs) == IF seqs = <<>> THEN <<>> ELSE Head(seqs) \o Flatten(Tail(seqs))

\* documents.listActiveDocuments (65-93)
listActiveDocuments ==
    LET documents == SelectSeq(ByOrder(documentsTable), LAMBDA d : d.active)
        docsWithDetails ==
            [i \in 1..Len(documents) |->
                LET category == Get(categoriesTable, documents[i].categoryId)
                IN  IF ~categoryVisible(category) THEN <<>>
                    ELSE <<[_id |-> documents[i]._id, order |-> documents[i].order,
                            url |-> documents[i].storageId,
                            category |-> {c.name : c \in category}]>>]
    IN  Flatten(docsWithDetails)

IssuedCategories == 1..created.categories
IssuedDocuments == 1..created.documents

\* the PDFs of the documents to come are in the storage
InitBackend ==
    /\ SchedQuiet
    /\ TiersIdle
    /\ ViewerIdle
    /\ SessionIdle
    /\ TapIdle
    /\ SoundIdle
    /\ uploading = FALSE
    /\ uploadStep = "idle"
    /\ uploadNumPages = 0
    /\ storageId = 0
    /\ pageImageIds = <<>>
    /\ saveCalls = 0
    /\ storage = [i \in 1..MaxDocuments |-> [kind |-> "pdf", page |-> 0]]
    /\ documentsTable = {}
    /\ categoriesTable = {}
    /\ created = [categories |-> 0, documents |-> 0]

NextBackend ==
    \/ \E name \in CategoryNames : categoriesCreate(name)
    \/ \E id \in IssuedCategories, name \in CategoryNames : categoriesUpdate(id, name)
    \/ \E id \in IssuedCategories : categoriesToggleActive(id)
    \/ \E ids \in Orderings(categoriesTable) : categoriesReorder(ids)
    \/ \E id \in IssuedCategories : categoriesRemove(id)
    \/ \E categoryId \in IssuedCategories, withPages \in BOOLEAN :
            saveDocument(categoryId, withPages)
    \/ \E id \in IssuedDocuments, categoryId \in IssuedCategories :
            updateDocument(id, categoryId)
    \/ \E id \in IssuedDocuments : documentsToggleActive(id)
    \/ \E ids \in Orderings(documentsTable) : documentsReorder(ids)
    \/ \E id \in IssuedDocuments : deleteDocument(id)

SpecBackend == InitBackend /\ [][NextBackend]_vars

\* C27: listActiveDocuments returns a document if and only if it is active
\* and its category exists and is active, each such document once, in
\* ascending order value.
ListsVisibleDocumentsOnly ==
    LET listed == listActiveDocuments
    IN  /\ {listed[i]._id : i \in 1..Len(listed)} =
               {d._id : d \in {r \in documentsTable :
                   /\ r.active
                   /\ \E c \in categoriesTable : c._id = r.categoryId /\ c.active}}
        /\ \A i, j \in 1..Len(listed) :
               /\ i < j => listed[i].order <= listed[j].order
               /\ listed[i]._id = listed[j]._id => i = j

\* C27 witness: of two active documents in reversed order, one is listed and
\* the other, in a hidden category, is not.
HiddenCategoryNotListed ==
    /\ Cardinality(documentsTable) = 2
    /\ \A d \in documentsTable : d.active
    /\ \E d \in documentsTable : d._id = 2 /\ d.order = 0
    /\ Len(listActiveDocuments) = 1
    /\ \E c \in categoriesTable : ~c.active

\* C29: every document record's categoryId identifies an existing category,
\* and a categories.remove of a category that documents refer to changes
\* nothing.
DocumentsReferToCategories ==
    /\ [](\A d \in documentsTable : \E c \in categoriesTable : c._id = d.categoryId)
    /\ [][\A id \in IssuedCategories :
             (categoriesRemove(id) /\ \E d \in documentsTable : d.categoryId = id) =>
                 UNCHANGED <<categoriesTable, documentsTable>>]_vars

----------------------------------------------------------------------------
\* Properties of the viewer session (SpecSession)

RenderWindowBounded ==
    ~hasPrerenderedImages(file) =>
        \A pageIndex \in 0..(numPages - 1) :
            shouldRenderPage(pageIndex) =>
                Abs(pageIndex - (pageNumber - 1)) <= 4

\* C17: in raw-document mode the load progress is within 0..100.
ProgressWithinRange ==
    ~hasPrerenderedImages(file) => loadProgress \in 0..100

\* C19: the ratio used for layout is the default or that of the document on
\* display.
RatioOfDocumentOnDisplay ==
    pdfRatio \in {DefaultRatio, DocRatio(file)}

====
